---- MODULE Spec2Model ----
(***************************************************************************)
(* Model of the three pipelines of financeAgentAi:                         *)
(*   btc_agent.py   - the Price Collector  (fetch_btc_price_and_store)     *)
(*   ghdy.py        - the Price Collector in looping mode (main)           *)
(*   info_agent.py  - the News Collector   (BitcoinNewsAgent)              *)
(*   email_agent.py - the Analysis & Notifier (FinanceEmailAgent)          *)
(* The price API, the search API, the generative API, the hosted database  *)
(* and the SMTP relay are the environment: every answer they can give is   *)
(* drawn with \E.  Text is a sequence of tokens, so that strip, startswith *)
(* and "in" are computed rather than assumed.                              *)
(***************************************************************************)
EXTENDS Integers, Sequences, FiniteSets, TLC

VARIABLES
    environ,      \* os.environ of the price collector: SUPABASE_URL, SUPABASE_KEY
    now,          \* datetime.now() of the price collector
    btc_prices,   \* rows of table btc_prices
    p_ticks,      \* invocations of fetch_btc_price_and_store so far
    p_last,       \* what the last invocation of fetch_btc_price_and_store did
    q_in,         \* generate_bitcoin_query: hf_api_key, the generative answer, random.choice
    q_out,        \* generate_bitcoin_query: the query returned
    s_in,         \* summarize_article: hf_api_key, the article, the generative answer
    s_out,        \* summarize_article: the summary returned
    n_env,        \* os.environ of the news collector
    n_pc,         \* news collector: "new", "aborted", "ready", "loop", "returned", "raised"
    n_num,        \* fetch_bitcoin_news: num_queries
    n_i,          \* fetch_bitcoin_news: i
    total_stored, \* fetch_bitcoin_news: total_stored
    eco_info,     \* rows of table eco_info
    n_clock,      \* datetime.now() of the news collector
    n_ret,        \* fetch_bitcoin_news: the value returned
    n_calls,      \* the external services the news collector has called so far
    n_last,       \* what the last iteration of the loop of fetch_bitcoin_news did
    t_hist,       \* a text and what the post-processing of send_email makes of it, applied again and again
    e_env,        \* os.environ of the analysis & notifier
    e_pc,         \* analysis & notifier: "new", "aborted", "ready", "done"
    e_run,        \* what FinanceEmailAgent.run did
    g_env,        \* os.environ of the price logger: SUPABASE_URL, SUPABASE_KEY
    g_pc,         \* price logger: "new", "aborted", "fetch", "save", "recent", "sleep", "backoff", "stopped", "escaped"
    g_iter,       \* main: iterations of the loop begun so far
    current_price, \* main: current_price
    bitcoin_prices, \* rows of table bitcoin_prices
    g_time,       \* time.time() of the price logger
    g_raised,     \* main: the last iteration raised into the except Exception handler
    g_waited      \* main: length of the last time.sleep that ran to its end

priceVars == <<environ, now, btc_prices, p_ticks, p_last>>
queryVars == <<q_in, q_out>>
summaryVars == <<s_in, s_out>>
newsVars == <<n_env, n_pc, n_num, n_i, total_stored, eco_info, n_clock,
              n_ret, n_calls, n_last>>
postVars == <<t_hist>>
emailVars == <<e_env, e_pc, e_run>>
loggerVars == <<g_env, g_pc, g_iter, current_price, bitcoin_prices, g_time,
                g_raised, g_waited>>
vars == <<priceVars, queryVars, summaryVars, newsVars, postVars, emailVars,
          loggerVars>>

(***************************************************************************)
(* Bounds                                                                  *)
(***************************************************************************)
MaxTicks == 3
MaxTextLen == 3
MaxQueries == 2
MaxResults == 2
MaxRows == 2
MaxApplications == 2
MaxIterations == 3

(***************************************************************************)
(* Python values                                                           *)
(***************************************************************************)
None == <<>>
Some(x) == <<x>>

\* Python truthiness of an environment value: os.getenv gives None for an
\* unset variable and "" for an empty one, both falsy; "" stands for both
Unset == ""
Truthy(s) == s # Unset

(***************************************************************************)
(* btc_agent.py                                                            *)
(***************************************************************************)
\* values SUPABASE_URL can hold: unset, not a URL, a URL
EnvUrls == {Unset, "not-a-url", "https://db.supabase.co"}
EnvKeys == {Unset, "service-key"}

\* requests.get(url): raises, or answers with a status
HttpStatuses == {200, 429, 500}
Raised == [raised |-> TRUE, status_code |-> 0]
Answer(s) == [raised |-> FALSE, status_code |-> s]
HttpOutcomes == {Raised} \cup {Answer(s) : s \in HttpStatuses}

\* body of a 200 answer: not {"bitcoin": {"usd": n}}, or a quote with the
\* time the quote source gives it
Quotes == {1, 42000}
QuoteTimes == {0, 99}
Payloads == {[usd |-> None, last_updated_at |-> 0]}
              \cup [usd : {Some(q) : q \in Quotes}, last_updated_at : QuoteTimes]

\* supabase.table(..).insert(..).execute(): raises, answers with no rows,
\* or stores the row and answers with it; the database stores a row exactly
\* when it answers with it
InsertOutcomes == {"raise", "norows", "ok"}

\* create_client(url, key) rejects a URL that is not http(s)://...
create_client_raises(url, key) == url = "not-a-url"

\* result of store_in_supabase: ret, the inserts issued, the rows stored
StoreResult(ret, issued, rows) == [ret |-> ret, issued |-> issued, rows |-> rows]

\* store_in_supabase with the slip of a lower-case currency code
store_in_supabase_currency(price, env, clock, ins) ==
    IF ~Truthy(env.SUPABASE_URL) \/ ~Truthy(env.SUPABASE_KEY)
    THEN StoreResult(FALSE, <<>>, <<>>)
    ELSE IF create_client_raises(env.SUPABASE_URL, env.SUPABASE_KEY)
    THEN StoreResult(FALSE, <<>>, <<>>)
    ELSE LET data == [price |-> price, currency |-> "usd", timestamp |-> clock]
         IN  CASE ins = "raise"  -> StoreResult(FALSE, <<data>>, <<>>)
               [] ins = "norows" -> StoreResult(FALSE, <<data>>, <<>>)
               [] ins = "ok"     -> StoreResult(TRUE, <<data>>, <<data>>)

store_in_supabase(price, env, clock, ins) ==
    IF ~Truthy(env.SUPABASE_URL) \/ ~Truthy(env.SUPABASE_KEY)
    THEN StoreResult(FALSE, <<>>, <<>>)
    ELSE IF create_client_raises(env.SUPABASE_URL, env.SUPABASE_KEY)
    THEN StoreResult(FALSE, <<>>, <<>>)
    ELSE LET data == [price |-> price, currency |-> "USD", timestamp |-> clock]
         IN  CASE ins = "raise"  -> StoreResult(FALSE, <<data>>, <<>>)
               [] ins = "norows" -> StoreResult(FALSE, <<data>>, <<>>)
               [] ins = "ok"     -> StoreResult(TRUE, <<data>>, <<data>>)

\* result of fetch_btc_price_and_store: ret, the GETs sent, the calls of
\* store_in_supabase, and what store_in_supabase did
FetchResult(ret, stores, st) ==
    [ret |-> ret, gets |-> 1, stores |-> stores, issued |-> st.issued,
     rows |-> st.rows, stored |-> st.ret]

NoStore == StoreResult(FALSE, <<>>, <<>>)

\* fetch_btc_price_and_store with the slip of storing before the status is looked at
fetch_btc_price_and_store_noelse(http, payload, env, clock, ins) ==
    IF http.raised THEN FetchResult(None, 0, NoStore)
    ELSE IF payload.usd = None THEN FetchResult(None, 0, NoStore)
    ELSE LET btc_price == payload.usd[1]
         IN  FetchResult(IF http.status_code = 200 THEN Some(btc_price) ELSE None, 1,
                         store_in_supabase(btc_price, env, clock, ins))

fetch_btc_price_and_store(http, payload, env, clock, ins) ==
    IF http.raised THEN FetchResult(None, 0, NoStore)
    ELSE IF http.status_code = 200
    THEN IF payload.usd = None THEN FetchResult(None, 0, NoStore)
         ELSE LET btc_price == payload.usd[1]
              IN  FetchResult(Some(btc_price), 1,
                              store_in_supabase(btc_price, env, clock, ins))
    ELSE FetchResult(None, 0, NoStore)

PriceIdle ==
    [http |-> Raised, payload |-> [usd |-> None, last_updated_at |-> 0],
     at |-> 0, before |-> 0, ret |-> None, gets |-> 0, stores |-> 0, issued |-> <<>>,
     rows |-> <<>>, stored |-> FALSE]

PriceStart ==
    /\ environ \in [SUPABASE_URL : EnvUrls, SUPABASE_KEY : EnvKeys]
    /\ now = 1
    /\ btc_prices = <<>>
    /\ p_ticks = 0
    /\ p_last = PriceIdle

\* one run of the script: python btc_agent.py
FetchBtcPriceAndStore ==
    /\ p_ticks < MaxTicks
    /\ \E http \in HttpOutcomes, payload \in Payloads, ins \in InsertOutcomes :
         LET r == fetch_btc_price_and_store(http, payload, environ, now, ins)
         IN  /\ btc_prices' = btc_prices \o r.rows
             /\ p_last' = [http |-> http, payload |-> payload, at |-> now,
                           before |-> Len(btc_prices),
                           ret |-> r.ret, gets |-> r.gets, stores |-> r.stores,
                           issued |-> r.issued, rows |-> r.rows,
                           stored |-> r.stored]
    /\ p_ticks' = p_ticks + 1
    /\ now' = now + 1
    /\ UNCHANGED environ

(***************************************************************************)
(* Text: a sequence of tokens (a word, a blank, a quote character)         *)
(***************************************************************************)
Whitespace == {" ", "\n"}
QuoteChars == {"\"", "'"}

SeqsUpTo(S, n) == UNION {[1..k -> S] : k \in 0..n}
Range(f) == {f[x] : x \in DOMAIN f}

RECURSIVE LStrip(_, _)
LStrip(text, chars) ==
    IF text # <<>> /\ Head(text) \in chars THEN LStrip(Tail(text), chars) ELSE text

RECURSIVE RStrip(_, _)
RStrip(text, chars) ==
    IF text # <<>> /\ text[Len(text)] \in chars
    THEN RStrip(SubSeq(text, 1, Len(text) - 1), chars) ELSE text

\* str.strip(chars)
Strip(text, chars) == RStrip(LStrip(text, chars), chars)

\* dict.get(key, default)
Get(dict, key, default) == IF key \in DOMAIN dict THEN dict[key] ELSE default

\* hf_client.text_generation(..): raises, or answers with a text
GenRaised == [raised |-> TRUE, text |-> <<>>]
GenAnswer(t) == [raised |-> FALSE, text |-> t]

(***************************************************************************)
(* info_agent.py: generate_bitcoin_query                                   *)
(***************************************************************************)
bitcoin_queries ==
    << <<"latest Bitcoin price analysis">>,
       <<"Bitcoin market trends this week">>,
       <<"cryptocurrency finance news Bitcoin">>,
       <<"Bitcoin investment strategies">>,
       <<"Bitcoin and traditional finance integration">>,
       <<"Bitcoin ETF performance">>,
       <<"Bitcoin mining profitability">>,
       <<"Bitcoin regulatory news">>,
       <<"Bitcoin institutional adoption">> >>

\* random.choice(bitcoin_queries): any index of the list
RandomChoices == 1..Len(bitcoin_queries)

\* generate_bitcoin_query with the slip of a missing except handler
generate_bitcoin_query_nofallback(hf_api_key, gen, pick) ==
    IF Truthy(hf_api_key)
    THEN Strip(Strip(gen.text, Whitespace), QuoteChars)
    ELSE bitcoin_queries[pick]

generate_bitcoin_query(hf_api_key, gen, pick) ==
    IF Truthy(hf_api_key)
    THEN IF gen.raised
         THEN bitcoin_queries[pick]
         ELSE Strip(Strip(gen.text, Whitespace), QuoteChars)
    ELSE bitcoin_queries[pick]

HfKeys == {Unset, "hf-key"}
QueryTokens == {" ", "\"", "btc price today", "Bitcoin ETF performance"}
QueryAnswers == {GenRaised} \cup {GenAnswer(t) : t \in SeqsUpTo(QueryTokens, MaxTextLen)}

QueryIdle ==
    /\ q_in = [hf_api_key |-> Unset, gen |-> GenRaised, pick |-> 1]
    /\ q_out = None

QueryInit ==
    /\ q_in \in [hf_api_key : HfKeys, gen : QueryAnswers, pick : RandomChoices]
    /\ q_out = None

GenerateBitcoinQuery ==
    /\ q_out = None
    /\ q_out' = Some(generate_bitcoin_query(q_in.hf_api_key, q_in.gen, q_in.pick))
    /\ UNCHANGED q_in

(***************************************************************************)
(* info_agent.py: summarize_article                                        *)
(***************************************************************************)
NoDescription == <<"No description available">>

\* summarize_article with the slip of stripping the description too
summarize_article_stripped(hf_api_key, article, gen) ==
    IF ~Truthy(hf_api_key) \/ gen.raised
    THEN Strip(Get(article, "description", NoDescription), Whitespace)
    ELSE Strip(gen.text, Whitespace)

summarize_article(hf_api_key, article, gen) ==
    IF ~Truthy(hf_api_key)
    THEN Get(article, "description", NoDescription)
    ELSE IF gen.raised
    THEN Get(article, "description", NoDescription)
    ELSE Strip(gen.text, Whitespace)

\* search results: with every field, with a description that begins and ends
\* in blanks, without a description, without any field
Articles ==
    { [title |-> <<"ETF inflows">>, description |-> <<"Inflows", " ", "rose">>,
       url |-> <<"https://a">>, source |-> <<"a">>, published |-> <<"Mon">>],
      [title |-> <<"Halving">>, description |-> <<" ", "Halving", "\n">>,
       url |-> <<"https://b">>],
      [title |-> <<"Miners">>, url |-> <<"https://c">>],
      [title |-> <<"Empty">>, description |-> <<>>],
      <<>> }

SummaryTokens == {" ", "Summary", "\n"}
SummaryAnswers == {GenRaised} \cup {GenAnswer(t) : t \in SeqsUpTo(SummaryTokens, MaxTextLen)}

SummaryIdle ==
    /\ s_in = [hf_api_key |-> Unset, article |-> <<>>, gen |-> GenRaised]
    /\ s_out = None

SummaryInit ==
    /\ s_in \in [hf_api_key : HfKeys, article : Articles, gen : SummaryAnswers]
    /\ s_out = None

SummarizeArticle ==
    /\ s_out = None
    /\ s_out' = Some(summarize_article(s_in.hf_api_key, s_in.article, s_in.gen))
    /\ UNCHANGED s_in

(***************************************************************************)
(* info_agent.py: search_brave, store_in_supabase, fetch_bitcoin_news      *)
(***************************************************************************)
EmptyDict == <<>>

\* requests.get(..) of search_brave: raises, or answers with a status and a
\* body that is JSON or not
SearchReply(status, json_ok, data) ==
    [raised |-> FALSE, status_code |-> status, json_ok |-> json_ok, data |-> data]
SearchRaised ==
    [raised |-> TRUE, status_code |-> 0, json_ok |-> FALSE, data |-> EmptyDict]

\* what search_brave gives its caller: an exception, or a list of results
SearchResult(raised, results) == [raised |-> raised, results |-> results]

\* search_brave with the slip of raising on a non-success status
search_brave_raise_for_status(reply) ==
    IF reply.raised \/ reply.status_code # 200 \/ ~reply.json_ok
    THEN SearchResult(TRUE, <<>>)
    ELSE SearchResult(FALSE, Get(Get(reply.data, "web", EmptyDict), "results", <<>>))

search_brave(reply) ==
    IF reply.raised THEN SearchResult(TRUE, <<>>)
    ELSE IF reply.status_code = 200
    THEN IF ~reply.json_ok THEN SearchResult(TRUE, <<>>)
         ELSE SearchResult(FALSE,
                  Get(Get(reply.data, "web", EmptyDict), "results", <<>>))
    ELSE SearchResult(FALSE, <<>>)

\* the f-string of lines 214-219
formatted_text(query, item, summary) ==
    [Query |-> query, Title |-> Get(item, "title", <<>>), Summary |-> summary,
     URL |-> Get(item, "url", <<>>), Source |-> Get(item, "source", <<>>),
     Published |-> Get(item, "published", <<>>)]

\* result of BitcoinNewsAgent.store_in_supabase: success_count, the inserts
\* issued, the rows stored
NewsStoreResult(count, issued, rows) ==
    [success_count |-> count, issued |-> issued, rows |-> rows]

RECURSIVE news_store_loop(_, _, _, _, _)
news_store_loop(news_items, inss, clock, k, acc) ==
    IF k > Len(news_items) THEN acc
    ELSE LET data == [timestamp |-> clock, finance_info |-> news_items[k]]
         IN  news_store_loop(news_items, inss, clock, k + 1,
                 IF inss[k] = "ok"
                 THEN NewsStoreResult(acc.success_count + 1, acc.issued + 1,
                                      Append(acc.rows, data))
                 ELSE NewsStoreResult(acc.success_count, acc.issued + 1, acc.rows))

\* store_in_supabase with the slip of counting every insert
RECURSIVE news_store_loop_counts_all(_, _, _, _, _)
news_store_loop_counts_all(news_items, inss, clock, k, acc) ==
    IF k > Len(news_items) THEN acc
    ELSE LET data == [timestamp |-> clock, finance_info |-> news_items[k]]
         IN  news_store_loop_counts_all(news_items, inss, clock, k + 1,
                 IF inss[k] = "ok"
                 THEN NewsStoreResult(acc.success_count + 1, acc.issued + 1,
                                      Append(acc.rows, data))
                 ELSE NewsStoreResult(acc.success_count + 1, acc.issued + 1, acc.rows))

news_store_in_supabase_counts_all(news_items, inss, clock) ==
    news_store_loop_counts_all(news_items, inss, clock, 1, NewsStoreResult(0, 0, <<>>))

\* BitcoinNewsAgent.store_in_supabase
news_store_in_supabase(news_items, inss, clock) ==
    news_store_loop(news_items, inss, clock, 1, NewsStoreResult(0, 0, <<>>))

\* one pass of the body of the loop of fetch_bitcoin_news
IterationResult(raised, query, results, st) ==
    [raised |-> raised, query |-> query, results |-> results,
     stored_count |-> st.success_count, issued |-> st.issued, rows |-> st.rows]

fetch_bitcoin_news_body(hf_api_key, qgen, pick, reply, sgens, inss, clock) ==
    LET query == generate_bitcoin_query(hf_api_key, qgen, pick)
        found == search_brave(reply)
    IN  IF found.raised
        THEN IterationResult(TRUE, query, <<>>, NewsStoreResult(0, 0, <<>>))
        ELSE LET news_items ==
                     [k \in 1..Len(found.results) |->
                         formatted_text(query, found.results[k],
                             summarize_article(hf_api_key, found.results[k], sgens[k]))]
             IN  IterationResult(FALSE, query, found.results,
                     news_store_in_supabase(news_items, inss, clock))

\* the environment of the workflow; generate_bitcoin_query and
\* summarize_article meet all their inputs under SpecQuery and SpecSummary
NewsEnvs == [BRAVE_API_KEY : {Unset, "brave-key"}, HF_API_KEY : HfKeys,
             SUPABASE_URL : EnvUrls, SUPABASE_KEY : EnvKeys]
NewsChoices == {9}
NewsQueryAnswers == {GenRaised, GenAnswer(<<"\"", "btc price today", "\"">>)}
NewsSummaryAnswers == {GenRaised, GenAnswer(<<"Summary", "\n">>)}
NewsArticles ==
    { [title |-> <<"Halving">>, description |-> <<" ", "Halving", "\n">>,
       url |-> <<"https://b">>] }
SearchReplies ==
    {SearchRaised, SearchReply(429, TRUE, EmptyDict), SearchReply(200, FALSE, EmptyDict),
     SearchReply(200, TRUE, EmptyDict), SearchReply(200, TRUE, [web |-> EmptyDict])}
    \cup {SearchReply(200, TRUE, [web |-> [results |-> rs]]) :
             rs \in SeqsUpTo(NewsArticles, MaxResults)}

\* the results a reply lists, and the answers of a generative API that is
\* called only with a key
Listed(reply) == Len(Get(Get(reply.data, "web", EmptyDict), "results", <<>>))
GenerativeAnswers(hf_api_key, answers) ==
    IF Truthy(hf_api_key) THEN answers ELSE {GenRaised}

NoCalls == {}
NewsLastIdle ==
    [ran |-> FALSE, i |-> 0, raised |-> FALSE, answered |-> FALSE,
     status_code |-> 0, json_ok |-> FALSE, listed |-> 0,
     results |-> <<>>, stored_count |-> 0, issued |-> 0,
     oks |-> 0, before |-> 0]

NewsIdle ==
    /\ n_env = [BRAVE_API_KEY |-> Unset, HF_API_KEY |-> Unset,
                SUPABASE_URL |-> Unset, SUPABASE_KEY |-> Unset]
    /\ n_pc = "new"
    /\ n_num = 0
    /\ n_i = 0
    /\ total_stored = 0
    /\ eco_info = <<>>
    /\ n_clock = 0
    /\ n_ret = None
    /\ n_calls = NoCalls
    /\ n_last = NewsLastIdle

NewsInit ==
    /\ n_env \in NewsEnvs
    /\ n_pc = "new"
    /\ n_num = 0
    /\ n_i = 0
    /\ total_stored = 0
    /\ eco_info = <<>>
    /\ n_clock = 0
    /\ n_ret = None
    /\ n_calls = NoCalls
    /\ n_last = NewsLastIdle

\* BitcoinNewsAgent.__init__: raises ValueError without the search key or the
\* database credentials; create_client raises on a URL it rejects
news_init_raises(env) ==
    \/ ~Truthy(env.BRAVE_API_KEY)
    \/ ~Truthy(env.SUPABASE_URL) \/ ~Truthy(env.SUPABASE_KEY)
    \/ create_client_raises(env.SUPABASE_URL, env.SUPABASE_KEY)

NewsConstruct ==
    /\ UNCHANGED <<priceVars, queryVars, summaryVars, postVars, emailVars, loggerVars>>
    /\ n_pc = "new"
    /\ n_pc' = IF news_init_raises(n_env) THEN "aborted" ELSE "ready"
    /\ UNCHANGED <<n_env, n_num, n_i, total_stored, eco_info, n_clock, n_ret,
                   n_calls, n_last>>

\* fetch_bitcoin_news(num_queries): total_stored = 0, then the loop
FetchBitcoinNews ==
    /\ UNCHANGED <<priceVars, queryVars, summaryVars, postVars, emailVars, loggerVars>>
    /\ n_pc = "ready"
    /\ \E num_queries \in 1..MaxQueries : n_num' = num_queries
    /\ n_i' = 0
    /\ total_stored' = 0
    /\ n_pc' = "loop"
    /\ UNCHANGED <<n_env, eco_info, n_clock, n_ret, n_calls, n_last>>

\* one pass of the loop, the sleep included; the pass of the last query
\* returns total_stored
FetchBitcoinNewsPass ==
    /\ UNCHANGED <<priceVars, queryVars, summaryVars, postVars, emailVars, loggerVars>>
    /\ n_pc = "loop"
    /\ \E qgen \in GenerativeAnswers(n_env.HF_API_KEY, NewsQueryAnswers),
          pick \in NewsChoices, reply \in SearchReplies :
       \E sgens \in [1..Listed(reply) ->
                        GenerativeAnswers(n_env.HF_API_KEY, NewsSummaryAnswers)],
          inss \in [1..Listed(reply) -> InsertOutcomes] :
       \E r \in {fetch_bitcoin_news_body(n_env.HF_API_KEY, qgen, pick, reply,
                                          sgens, inss, n_clock)},
          hf \in {IF Truthy(n_env.HF_API_KEY) THEN {"generate"} ELSE {}} :
             /\ eco_info' = eco_info \o r.rows
             /\ n_clock' = n_clock + 1
             /\ n_calls' = n_calls \cup hf \cup {"search"}
                               \cup (IF r.issued > 0 THEN {"insert"} ELSE {})
             /\ n_last' = [ran |-> TRUE, i |-> n_i, raised |-> r.raised,
                           answered |-> ~reply.raised,
                           status_code |-> reply.status_code,
                           json_ok |-> reply.json_ok,
                           listed |-> Listed(reply),
                           results |-> r.results,
                           stored_count |-> r.stored_count, issued |-> r.issued,
                           oks |-> Cardinality({k \in 1..Len(r.results) : inss[k] = "ok"}),
                           before |-> Len(eco_info)]
             /\ IF r.raised
                THEN /\ n_pc' = "raised"
                     /\ UNCHANGED <<n_i, total_stored, n_ret>>
                ELSE /\ total_stored' = total_stored + r.stored_count
                     /\ n_i' = n_i + 1
                     /\ IF n_i + 1 < n_num
                        THEN n_pc' = "loop" /\ UNCHANGED n_ret
                        ELSE n_pc' = "returned"
                             /\ n_ret' = Some(total_stored + r.stored_count)
    /\ UNCHANGED <<n_env, n_num>>

(***************************************************************************)
(* email_agent.py: the post-processing of send_email                       *)
(***************************************************************************)
\* str.startswith(word), word in text
StartsWith(text, word) == text # <<>> /\ Head(text) = word
Contains(text, word) == word \in Range(text)

Salutation == <<"Dear Hamza", ",\n\n">>
Signature == <<"\n\n", "Regards", ",\nYour Finance Agent">>

\* the post-processing with the slip of an unconditional signature
postprocess_always_signs(analysis) ==
    LET saluted == IF ~StartsWith(analysis, "Dear Hamza") /\ ~StartsWith(analysis, "Hi Hamza")
                   THEN Salutation \o analysis ELSE analysis
    IN  saluted \o Signature

\* lines 198-204
postprocess(analysis) ==
    LET saluted == IF ~StartsWith(analysis, "Dear Hamza") /\ ~StartsWith(analysis, "Hi Hamza")
                   THEN Salutation \o analysis ELSE analysis
    IN  IF ~Contains(saluted, "Regards") /\ ~Contains(saluted, "Sincerely")
        THEN saluted \o Signature ELSE saluted

EmailTokens == {"Dear Hamza", "Hi Hamza", "Regards", "Sincerely", "analysis", " "}

PostIdle == t_hist = << <<>> >>

PostInit == t_hist \in {<<t>> : t \in SeqsUpTo(EmailTokens, MaxTextLen)}

Postprocess ==
    /\ Len(t_hist) <= MaxApplications
    /\ t_hist' = Append(t_hist, postprocess(t_hist[Len(t_hist)]))

(***************************************************************************)
(* email_agent.py: FinanceEmailAgent                                       *)
(***************************************************************************)
recipient_email == "s.hamza.zar@gmail.com"

ErrorNotice ==
    <<"Error generating Bitcoin market analysis. Please check the system logs.">>

test_analysis ==
    <<"Dear Hamza", ",\n\n", "This is a test email from your Finance Email Agent.",
      "\n\n", "Regards", ",\nYour Finance Agent">>

\* .execute() of a select: raises, answers without a data attribute, or
\* answers with rows
ReadRaised == [raised |-> TRUE, has_data |-> FALSE, data |-> <<>>]
ReadNoData == [raised |-> FALSE, has_data |-> FALSE, data |-> <<>>]
ReadRows(rows) == [raised |-> FALSE, has_data |-> TRUE, data |-> rows]

\* get_recent_eco_info and get_recent_btc_prices
get_recent(read) ==
    IF read.raised THEN <<>>
    ELSE IF read.has_data THEN read.data ELSE <<>>

\* eco_info[:10]
ContextLimit == 10
Take(rows, n) == SubSeq(rows, 1, IF Len(rows) < n THEN Len(rows) ELSE n)

\* timestamp.split('T')[0]
RECURSIVE BeforeT(_)
BeforeT(text) ==
    IF text = <<>> \/ Head(text) = "T" THEN <<>>
    ELSE <<Head(text)>> \o BeforeT(Tail(text))

IsDict(row) == "null" \notin DOMAIN row
HasNews(row) == "finance_info" \in DOMAIN row
HasPrice(row) == {"price", "timestamp"} \subseteq DOMAIN row
NewsLine(row) == row["finance_info"]
PriceLine(row) ==
    [Date |-> BeforeT(row["timestamp"]), Price |-> row["price"],
     Volume |-> Get(row, "volume", 0)]
NewsLines(rows) == [k \in 1..Len(rows) |-> NewsLine(rows[k])]
PriceLines(rows) == [k \in 1..Len(rows) |-> PriceLine(rows[k])]

\* prepare_context: a row that is no dict makes the "in" test raise
prepare_context(eco, btc) ==
    IF \E k \in 1..Len(Take(eco, ContextLimit)) : ~IsDict(eco[k])
       THEN [raised |-> TRUE, news |-> <<>>, prices |-> <<>>]
    ELSE IF \E k \in 1..Len(Take(btc, ContextLimit)) : ~IsDict(btc[k])
       THEN [raised |-> TRUE, news |-> <<>>, prices |-> <<>>]
    ELSE [raised |-> FALSE,
          news |-> NewsLines(SelectSeq(Take(eco, ContextLimit), HasNews)),
          prices |-> PriceLines(SelectSeq(Take(btc, ContextLimit), HasPrice))]

\* generate_analysis with the slip of a missing except handler
generate_analysis_reraise(context, gen) ==
    IF gen.raised THEN [raised |-> TRUE, text |-> <<>>]
    ELSE [raised |-> FALSE, text |-> Strip(gen.text, Whitespace)]

\* generate_analysis: the text, or the fixed notice when the call raises
generate_analysis(context, gen) ==
    IF gen.raised THEN [raised |-> FALSE, text |-> ErrorNotice]
    ELSE [raised |-> FALSE, text |-> Strip(gen.text, Whitespace)]

\* SMTP_SSL(..), login, send_message, quit: the first step that raises
Transports == {"connect", "login", "send_message", "quit", "ok"}

Transmission(body, transport) ==
    [To |-> recipient_email, body |-> body, failed |-> transport,
     delivered |-> transport \in {"quit", "ok"}]

\* send_email with the slip of a second attempt after a failure
send_email_retry(analysis, transport) ==
    LET body == postprocess(analysis)
    IN  IF transport = "ok"
        THEN [ret |-> TRUE, sent |-> <<Transmission(body, transport)>>]
        ELSE [ret |-> FALSE, sent |-> <<Transmission(body, transport),
                                        Transmission(body, transport)>>]

\* send_email: one transmission, True when no step raised
send_email(analysis, transport) ==
    LET body == postprocess(analysis)
    IN  [ret |-> transport = "ok", sent |-> <<Transmission(body, transport)>>]

\* result of run: the value returned, whether an exception escaped, the
\* generative calls made, the analysis handed to send_email, the transmissions
RunResult(ret, generated, analysis, sent) ==
    [ret |-> ret, escaped |-> FALSE, generated |-> generated,
     analysis |-> analysis, sent |-> sent]

\* run with the slip of a missing test for empty read-backs
run_always_analyses(test_mode, eco_read, btc_read, gen, transport) ==
    LET eco == get_recent(eco_read)
        btc == get_recent(btc_read)
        context == prepare_context(eco, btc)
        analysis == generate_analysis(context, gen)
        mail == send_email(analysis.text, transport)
    IN  IF context.raised THEN RunResult(FALSE, 0, None, <<>>)
        ELSE IF analysis.raised THEN RunResult(FALSE, 1, None, <<>>)
        ELSE RunResult(mail.ret, 1, Some(analysis.text), mail.sent)

run(test_mode, eco_read, btc_read, gen, transport) ==
    LET eco == get_recent(eco_read)
        btc == get_recent(btc_read)
    IN  IF eco = <<>> \/ btc = <<>>
        THEN IF test_mode
             THEN LET mail == send_email(test_analysis, transport)
                  IN  RunResult(mail.ret, 0, Some(test_analysis), mail.sent)
             ELSE RunResult(FALSE, 0, None, <<>>)
        ELSE LET context == prepare_context(eco, btc)
                 analysis == generate_analysis(context, gen)
                 mail == send_email(analysis.text, transport)
             IN  IF context.raised THEN RunResult(FALSE, 0, None, <<>>)
                 ELSE IF analysis.raised THEN RunResult(FALSE, 1, None, <<>>)
                 ELSE RunResult(mail.ret, 1, Some(analysis.text), mail.sent)

\* the environment of the workflow
EmailEnvs == [HF_API_KEY : HfKeys, SUPABASE_URL : EnvUrls, SUPABASE_KEY : EnvKeys,
              GMAIL_USER : {Unset, "agent@gmail.com"},
              GMAIL_APP_PASSWORD : {Unset, "app-password"}]
EcoRows == { [timestamp |-> <<"2026-10-30", "T", "09:00">>, finance_info |-> <<"news">>],
             [null |-> TRUE] }
BtcRows == { [timestamp |-> <<"2026-10-30", "T", "09:00">>, price |-> 42000],
             [timestamp |-> <<"2026-10-31", "T", "09:00">>, price |-> 1, volume |-> 7] }
EcoReads == {ReadRaised, ReadNoData} \cup {ReadRows(rs) : rs \in SeqsUpTo(EcoRows, MaxRows)}
BtcReads == {ReadRaised, ReadNoData} \cup {ReadRows(rs) : rs \in SeqsUpTo(BtcRows, MaxRows)}
AnalysisTokens == {"Dear Hamza", "Regards", "analysis", " "}
AnalysisAnswers ==
    {GenRaised} \cup {GenAnswer(t) : t \in SeqsUpTo(AnalysisTokens, MaxTextLen)}

RunIdle ==
    [ran |-> FALSE, test_mode |-> FALSE, eco |-> 0, btc |-> 0, gen_raised |-> FALSE,
     ret |-> None, escaped |-> FALSE, generated |-> 0, analysis |-> None, sent |-> <<>>]

EmailIdle ==
    /\ e_env = [HF_API_KEY |-> Unset, SUPABASE_URL |-> Unset, SUPABASE_KEY |-> Unset,
                GMAIL_USER |-> Unset, GMAIL_APP_PASSWORD |-> Unset]
    /\ e_pc = "new"
    /\ e_run = RunIdle

EmailInit ==
    /\ e_env \in EmailEnvs
    /\ e_pc = "new"
    /\ e_run = RunIdle

\* FinanceEmailAgent.__init__: raises ValueError without the inference key,
\* the database credentials or the mail account; create_client raises on a
\* URL it rejects
email_init_raises(env) ==
    \/ ~Truthy(env.HF_API_KEY)
    \/ ~Truthy(env.SUPABASE_URL) \/ ~Truthy(env.SUPABASE_KEY)
    \/ ~Truthy(env.GMAIL_USER) \/ ~Truthy(env.GMAIL_APP_PASSWORD)
    \/ create_client_raises(env.SUPABASE_URL, env.SUPABASE_KEY)

EmailConstruct ==
    /\ UNCHANGED <<priceVars, queryVars, summaryVars, newsVars, postVars, loggerVars>>
    /\ e_pc = "new"
    /\ e_pc' = IF email_init_raises(e_env) THEN "aborted" ELSE "ready"
    /\ UNCHANGED <<e_env, e_run>>

\* agent.run(test_mode)
Run ==
    /\ UNCHANGED <<priceVars, queryVars, summaryVars, newsVars, postVars, loggerVars>>
    /\ e_pc = "ready"
    /\ \E test_mode \in BOOLEAN, eco_read \in EcoReads, btc_read \in BtcReads,
          gen \in AnalysisAnswers, transport \in Transports :
       \E r \in {run(test_mode, eco_read, btc_read, gen, transport)} :
          e_run' = [ran |-> TRUE, test_mode |-> test_mode,
                    eco |-> Len(get_recent(eco_read)),
                    btc |-> Len(get_recent(btc_read)),
                    gen_raised |-> gen.raised,
                    ret |-> Some(r.ret), escaped |-> r.escaped,
                    generated |-> r.generated, analysis |-> r.analysis,
                    sent |-> r.sent]
    /\ e_pc' = "done"
    /\ UNCHANGED e_env

(***************************************************************************)
(* ghdy.py: the price logger                                               *)
(***************************************************************************)
SleepInterval == 3600
BackoffInterval == 60
RecentLimit == 24

\* module level: the credentials are read with os.getenv, their absence
\* raises ValueError, and create_client raises on a URL it rejects
logger_import_raises(env) ==
    \/ ~Truthy(env.SUPABASE_URL) \/ ~Truthy(env.SUPABASE_KEY)
    \/ create_client_raises(env.SUPABASE_URL, env.SUPABASE_KEY)

\* body of a 200 answer: not JSON, JSON without ["bitcoin"]["usd"], or a
\* quote; a quote of 0 is falsy in "if current_price"
LoggerQuotes == {0, 42000}
LoggerBodies ==
    {[json_ok |-> FALSE, usd |-> None], [json_ok |-> TRUE, usd |-> None]}
        \cup {[json_ok |-> TRUE, usd |-> Some(q)] : q \in LoggerQuotes}

\* what a call gives its caller: an exception, or the value returned
Raises == [raised |-> TRUE, ret |-> None]
Returns(v) == [raised |-> FALSE, ret |-> v]

\* fetch_bitcoin_price: RequestException (a transport failure, the HTTPError
\* of raise_for_status) is caught and gives None; a KeyError of the lookup is
\* not caught; the error of response.json() is a RequestException in the
\* releases of requests that derive it from one, a plain ValueError in the
\* others
fetch_bitcoin_price(http, body, json_error_is_request_exception) ==
    IF http.raised THEN Returns(None)
    ELSE IF http.status_code # 200 THEN Returns(None)
    ELSE IF ~body.json_ok
    THEN IF json_error_is_request_exception THEN Returns(None) ELSE Raises
    ELSE IF body.usd = None THEN Raises
    ELSE Returns(body.usd)

\* save_to_supabase: float() of a JSON number keeps its value; the insert is
\* issued, its answer is not looked at, every exception is caught and the
\* function returns None in every case
SaveResult(ret, rows) == [ret |-> ret, rows |-> rows]
save_to_supabase(price_data, clock, ins) ==
    LET data == [timestamp |-> clock, readable_timestamp |-> clock,
                 price_usd |-> price_data.price_usd]
    IN  CASE ins = "raise"  -> SaveResult(None, <<>>)
          [] ins = "norows" -> SaveResult(None, <<>>)
          [] ins = "ok"     -> SaveResult(None, <<data>>)

\* fetch_recent_prices: the newest RecentLimit rows, or None when the read raises
Reverse(rows) == [k \in 1..Len(rows) |-> rows[Len(rows) + 1 - k]]
fetch_recent_prices(read_raises, table) ==
    IF read_raises THEN None ELSE Some(Take(Reverse(table), RecentLimit))

\* recent_prices[['timestamp', 'price_usd']]: a frame built from no rows has
\* no columns, and selecting them raises KeyError
print_recent_raises(recent_prices) ==
    recent_prices # None /\ Len(recent_prices[1]) = 0

\* the positions of main inside the loop
LoopPositions == {"fetch", "save", "recent", "sleep", "backoff"}

LoggerIdle ==
    /\ g_env = [SUPABASE_URL |-> Unset, SUPABASE_KEY |-> Unset]
    /\ g_pc = "new"
    /\ g_iter = 0
    /\ current_price = None
    /\ bitcoin_prices = <<>>
    /\ g_time = 0
    /\ g_raised = FALSE
    /\ g_waited = 0

LoggerInit ==
    /\ g_env \in [SUPABASE_URL : EnvUrls, SUPABASE_KEY : EnvKeys]
    /\ g_pc = "new"
    /\ g_iter = 0
    /\ current_price = None
    /\ bitcoin_prices = <<>>
    /\ g_time = 0
    /\ g_raised = FALSE
    /\ g_waited = 0

\* python ghdy.py: the module level, then main() up to the head of the loop
LoggerImport ==
    /\ UNCHANGED <<priceVars, queryVars, summaryVars, newsVars, postVars, emailVars>>
    /\ g_pc = "new"
    /\ g_pc' = IF logger_import_raises(g_env) THEN "aborted" ELSE "fetch"
    /\ UNCHANGED <<g_env, g_iter, current_price, bitcoin_prices, g_time,
                   g_raised, g_waited>>

\* main: current_price = fetch_bitcoin_price() and "if current_price"
MainFetch ==
    /\ UNCHANGED <<priceVars, queryVars, summaryVars, newsVars, postVars, emailVars>>
    /\ g_pc = "fetch"
    /\ g_iter < MaxIterations
    /\ \E http \in HttpOutcomes, body \in LoggerBodies,
          json_error_is_request_exception \in BOOLEAN :
       \E r \in {fetch_bitcoin_price(http, body, json_error_is_request_exception)} :
          /\ g_raised' = r.raised
          /\ current_price' = IF r.raised THEN current_price ELSE r.ret
          /\ g_pc' = IF r.raised THEN "backoff"
                     ELSE IF r.ret # None /\ r.ret[1] # 0 THEN "save"
                     ELSE "sleep"
    /\ g_iter' = g_iter + 1
    /\ UNCHANGED <<g_env, bitcoin_prices, g_time, g_waited>>

\* main: save_to_supabase(price_data)
MainSave ==
    /\ UNCHANGED <<priceVars, queryVars, summaryVars, newsVars, postVars, emailVars>>
    /\ g_pc = "save"
    /\ \E ins \in InsertOutcomes :
       \E r \in {save_to_supabase([timestamp |-> g_time, price_usd |-> current_price[1]],
                                   g_time, ins)} :
          bitcoin_prices' = bitcoin_prices \o r.rows
    /\ g_pc' = "recent"
    /\ UNCHANGED <<g_env, g_iter, current_price, g_time, g_raised, g_waited>>

\* main: recent_prices = fetch_recent_prices() and the print of its columns
MainRecent ==
    /\ UNCHANGED <<priceVars, queryVars, summaryVars, newsVars, postVars, emailVars>>
    /\ g_pc = "recent"
    /\ \E read_raises \in BOOLEAN :
       \E recent_prices \in {fetch_recent_prices(read_raises, bitcoin_prices)} :
          /\ g_raised' = print_recent_raises(recent_prices)
          /\ g_pc' = IF print_recent_raises(recent_prices) THEN "backoff" ELSE "sleep"
    /\ UNCHANGED <<g_env, g_iter, current_price, bitcoin_prices, g_time, g_waited>>

\* main: time.sleep(3600) runs to its end and the loop goes round
MainSleep ==
    /\ UNCHANGED <<priceVars, queryVars, summaryVars, newsVars, postVars, emailVars>>
    /\ g_pc = "sleep"
    /\ g_time' = g_time + SleepInterval
    /\ g_waited' = SleepInterval
    /\ g_pc' = "fetch"
    /\ UNCHANGED <<g_env, g_iter, current_price, bitcoin_prices, g_raised>>

\* main: the except Exception handler; time.sleep(60) runs to its end and
\* the loop goes round
MainBackoff ==
    /\ UNCHANGED <<priceVars, queryVars, summaryVars, newsVars, postVars, emailVars>>
    /\ g_pc = "backoff"
    /\ g_time' = g_time + BackoffInterval
    /\ g_waited' = BackoffInterval
    /\ g_pc' = "fetch"
    /\ UNCHANGED <<g_env, g_iter, current_price, bitcoin_prices, g_raised>>

\* KeyboardInterrupt is raised where main is.  Inside the try it passes the
\* except RequestException of fetch_bitcoin_price and the except Exception of
\* save_to_supabase and fetch_recent_prices (it is a BaseException) and
\* reaches the except KeyboardInterrupt of main, which breaks; an insert that
\* was under way may or may not have reached the table.  The time.sleep(60)
\* of the except Exception handler is outside the try: there the exception
\* leaves main.
KeyboardInterrupt ==
    /\ UNCHANGED <<priceVars, queryVars, summaryVars, newsVars, postVars, emailVars>>
    /\ g_pc \in LoopPositions
    /\ g_pc' = IF g_pc = "backoff" THEN "escaped" ELSE "stopped"
    /\ \E stored \in (IF g_pc = "save" THEN BOOLEAN ELSE {FALSE}) :
          bitcoin_prices' =
              IF stored
              THEN bitcoin_prices \o
                       save_to_supabase([timestamp |-> g_time,
                                         price_usd |-> current_price[1]],
                                        g_time, "ok").rows
              ELSE bitcoin_prices
    /\ UNCHANGED <<g_env, g_iter, current_price, g_time, g_raised, g_waited>>

(***************************************************************************)
(* Specifications                                                          *)
(***************************************************************************)
PriceInit ==
    PriceStart /\ QueryIdle /\ SummaryIdle /\ NewsIdle /\ PostIdle /\ EmailIdle /\ LoggerIdle
PriceNext ==
    FetchBtcPriceAndStore
        /\ UNCHANGED <<queryVars, summaryVars, newsVars, postVars, emailVars, loggerVars>>
SpecPrice == PriceInit /\ [][PriceNext]_vars

PriceIdleAll ==
    /\ environ = [SUPABASE_URL |-> Unset, SUPABASE_KEY |-> Unset]
    /\ now = 1
    /\ btc_prices = <<>>
    /\ p_ticks = 0
    /\ p_last = PriceIdle

QuerySpecInit ==
    QueryInit /\ PriceIdleAll /\ SummaryIdle /\ NewsIdle /\ PostIdle /\ EmailIdle /\ LoggerIdle
QueryNext ==
    GenerateBitcoinQuery
        /\ UNCHANGED <<priceVars, summaryVars, newsVars, postVars, emailVars, loggerVars>>
SpecQuery == QuerySpecInit /\ [][QueryNext]_vars

SummarySpecInit ==
    SummaryInit /\ PriceIdleAll /\ QueryIdle /\ NewsIdle /\ PostIdle /\ EmailIdle /\ LoggerIdle
SummaryNext ==
    SummarizeArticle
        /\ UNCHANGED <<priceVars, queryVars, newsVars, postVars, emailVars, loggerVars>>
SpecSummary == SummarySpecInit /\ [][SummaryNext]_vars

NewsSpecInit ==
    NewsInit /\ PriceIdleAll /\ QueryIdle /\ SummaryIdle /\ PostIdle /\ EmailIdle /\ LoggerIdle
NewsNext == NewsConstruct \/ FetchBitcoinNews \/ FetchBitcoinNewsPass
SpecNews == NewsSpecInit /\ [][NewsNext]_vars

PostSpecInit ==
    PostInit /\ PriceIdleAll /\ QueryIdle /\ SummaryIdle /\ NewsIdle /\ EmailIdle /\ LoggerIdle
PostNext ==
    Postprocess
        /\ UNCHANGED <<priceVars, queryVars, summaryVars, newsVars, emailVars, loggerVars>>
SpecPost == PostSpecInit /\ [][PostNext]_vars

EmailSpecInit ==
    EmailInit /\ PriceIdleAll /\ QueryIdle /\ SummaryIdle /\ NewsIdle /\ PostIdle /\ LoggerIdle
EmailNext == EmailConstruct \/ Run
SpecEmail == EmailSpecInit /\ [][EmailNext]_vars

LoggerSpecInit ==
    LoggerInit /\ PriceIdleAll /\ QueryIdle /\ SummaryIdle /\ NewsIdle /\ PostIdle /\ EmailIdle
LoggerNext ==
    \/ LoggerImport \/ MainFetch \/ MainSave \/ MainRecent
    \/ MainSleep \/ MainBackoff \/ KeyboardInterrupt
SpecLogger == LoggerSpecInit /\ [][LoggerNext]_vars

(***************************************************************************)
(* Claims about btc_agent.py, checked under SpecPrice                      *)
(***************************************************************************)
PriceCalled == p_ticks > 0
PriceFailed == p_last.http.raised \/ p_last.http.status_code # 200
PriceQuoted == ~p_last.http.raised /\ p_last.http.status_code = 200
                  /\ p_last.payload.usd # None
CredentialsPresent == Truthy(environ.SUPABASE_URL) /\ Truthy(environ.SUPABASE_KEY)
ClientBuilt == ~create_client_raises(environ.SUPABASE_URL, environ.SUPABASE_KEY)

\* the insert of the last invocation: one, carrying the quoted price, "USD"
\* and the collector's own clock
OneInsertOfQuote ==
    /\ p_last.stores = 1
    /\ Len(p_last.issued) = 1
    /\ p_last.issued[1].price = p_last.payload.usd[1]
    /\ p_last.issued[1].currency = "USD"
    /\ p_last.issued[1].timestamp = p_last.at
    /\ Len(btc_prices) <= p_last.before + 1

\* C1: when the price API answers with a status other than 200, or the
\* request raises, fetch_btc_price_and_store returns None, never calls
\* store_in_supabase, issues no insert, leaves the price table as it was and
\* has sent exactly one GET.
C1_FailedFetchStoresNothing ==
    (PriceCalled /\ PriceFailed) =>
        /\ p_last.ret = None
        /\ p_last.stores = 0
        /\ p_last.issued = <<>>
        /\ Len(btc_prices) = p_last.before
        /\ p_last.gets = 1

\* a non-200 answer that carried a quote, with credentials that would have
\* let the insert through
C1_Witness ==
    /\ PriceCalled /\ ~p_last.http.raised /\ p_last.http.status_code = 500
    /\ p_last.payload.usd # None
    /\ CredentialsPresent /\ ClientBuilt
    /\ p_last.ret = None

QueryReturned == q_out # None
GenerativeQueryUnavailable == ~Truthy(q_in.hf_api_key) \/ q_in.gen.raised

\* C5: when no inference key is configured or the generative call raises,
\* generate_bitcoin_query returns a member of the fixed list of nine
\* candidates; a returned query outside the list comes from a generative
\* call that succeeded.
C5_FallbackQueryIsCandidate ==
    QueryReturned =>
        /\ Len(bitcoin_queries) = 9
        /\ GenerativeQueryUnavailable => q_out[1] \in Range(bitcoin_queries)
        /\ q_out[1] \notin Range(bitcoin_queries)
               => (Truthy(q_in.hf_api_key) /\ ~q_in.gen.raised)

\* the key is configured, the generative call raised, and the last candidate
\* was drawn
C5_Witness ==
    /\ QueryReturned
    /\ Truthy(q_in.hf_api_key) /\ q_in.gen.raised
    /\ q_in.pick = 9
    /\ q_out = Some(<<"Bitcoin institutional adoption">>)

(***************************************************************************)
(* Claims about summarize_article, checked under SpecSummary               *)
(***************************************************************************)
SummaryReturned == s_out # None
GenerativeSummaryUnavailable == ~Truthy(s_in.hf_api_key) \/ s_in.gen.raised

\* C6 as stated: with the generative path unavailable, summarize_article
\* returns the description field of the search result, for every search
\* result.
C6_Original ==
    (SummaryReturned /\ GenerativeSummaryUnavailable) =>
        /\ "description" \in DOMAIN s_in.article
        /\ s_out[1] = s_in.article["description"]

\* C6 amended: with the generative path unavailable, summarize_article
\* returns the description field unchanged when the search result has one,
\* and the fixed text "No description available" when it has none.
C6_FallbackIsDescriptionOrDefault ==
    (SummaryReturned /\ GenerativeSummaryUnavailable) =>
        IF "description" \in DOMAIN s_in.article
        THEN s_out[1] = s_in.article["description"]
        ELSE s_out[1] = <<"No description available">>

\* the key is configured, the generative call raised, and the description
\* returned begins and ends in blanks
C6_Witness ==
    /\ SummaryReturned
    /\ Truthy(s_in.hf_api_key) /\ s_in.gen.raised
    /\ "description" \in DOMAIN s_in.article
    /\ s_in.article["description"] = <<" ", "Halving", "\n">>
    /\ s_out = Some(<<" ", "Halving", "\n">>)

(***************************************************************************)
(* Claims about fetch_bitcoin_news, checked under SpecNews                 *)
(***************************************************************************)
\* the search of the last pass answered with a non-success status, or with
\* a payload that lists no result
EmptySearch ==
    /\ n_last.ran /\ n_last.answered
    /\ \/ n_last.status_code # 200
       \/ n_last.json_ok /\ n_last.listed = 0

\* C9: a pass of fetch_bitcoin_news whose search answers with a non-success
\* status or an empty payload issues no insert, adds no row to eco_info, has
\* stored-count 0, raises nothing, and the loop goes on to the next query
\* (or returns after the last one).
C9_EmptySearchStoresNothing ==
    EmptySearch =>
        /\ ~n_last.raised /\ n_pc # "raised"
        /\ n_last.results = <<>>
        /\ n_last.issued = 0
        /\ n_last.stored_count = 0
        /\ Len(eco_info) = n_last.before
        /\ IF n_last.i + 1 < n_num
           THEN n_pc = "loop" /\ n_i = n_last.i + 1
           ELSE n_pc = "returned" /\ n_ret # None

\* the first of two queries was answered 429 and the loop is at the second
C9_Witness ==
    /\ EmptySearch /\ n_last.status_code = 429
    /\ n_num = 2 /\ n_last.i = 0
    /\ n_pc = "loop" /\ n_i = 1

\* C10: the value fetch_bitcoin_news returns is the number of rows the run
\* added to eco_info; in every pass each result gets its insert, only the
\* inserts that answer with a row are counted, and the rows already in the
\* table stay.
C10_ReturnCountsInsertedRows ==
    /\ Len(eco_info) = total_stored
    /\ n_pc = "returned" => n_ret = Some(Len(eco_info))
    /\ (n_last.ran /\ ~n_last.raised) =>
           /\ n_last.issued = Len(n_last.results)
           /\ n_last.stored_count = n_last.oks
           /\ Len(eco_info) = n_last.before + n_last.oks

\* two queries; the last pass issued two inserts and one of them failed,
\* after a pass that had stored a row
C10_Witness ==
    /\ n_pc = "returned" /\ n_num = 2
    /\ n_last.issued = 2 /\ n_last.oks = 1
    /\ n_last.before = 1
    /\ n_ret = Some(2)

(***************************************************************************)
(* Claims about the post-processing of send_email, checked under SpecPost  *)
(***************************************************************************)
PostApplied == Len(t_hist) >= 2
PostAppliedTwice == Len(t_hist) >= 3

\* C4 as stated: a text that contains "Dear Hamza" and "Regards" anywhere is
\* sent unchanged, and post-processing the output again changes nothing.
C4_Original ==
    /\ (PostApplied /\ Contains(t_hist[1], "Dear Hamza") /\ Contains(t_hist[1], "Regards"))
           => t_hist[2] = t_hist[1]
    /\ PostAppliedTwice => t_hist[3] = t_hist[2]

\* C4 amended: a text that begins with "Dear Hamza" and contains "Regards"
\* anywhere is sent unchanged, and post-processing the output of the
\* post-processing again changes nothing, for every text.
C4_PostprocessIdempotent ==
    /\ (PostApplied /\ StartsWith(t_hist[1], "Dear Hamza") /\ Contains(t_hist[1], "Regards"))
           => t_hist[2] = t_hist[1]
    /\ PostAppliedTwice => t_hist[3] = t_hist[2]

\* a text with neither salutation nor closing was post-processed twice
C4_Witness ==
    /\ PostAppliedTwice
    /\ t_hist[1] = <<"analysis">>
    /\ t_hist[2] = Salutation \o <<"analysis">> \o Signature
    /\ t_hist[3] = t_hist[2]

(***************************************************************************)
(* Claims about FinanceEmailAgent.run, checked under SpecEmail             *)
(***************************************************************************)
InsufficientData == e_run.ran /\ (e_run.eco = 0 \/ e_run.btc = 0)
IsBoolean(ret) == ret = Some(TRUE) \/ ret = Some(FALSE)

\* C3 as stated: with an empty read-back, a run in normal mode returns False
\* without generative call and without email; a run in test mode makes no
\* generative call and exactly one email, with the placeholder body, is sent.
C3_Original ==
    InsufficientData =>
        IF e_run.test_mode
        THEN /\ e_run.generated = 0
             /\ Len(e_run.sent) = 1
             /\ e_run.sent[1].body = test_analysis
             /\ e_run.sent[1].delivered
        ELSE e_run.ret = Some(FALSE) /\ e_run.generated = 0 /\ e_run.sent = <<>>

\* C3 amended: with an empty read-back, a run in normal mode returns False
\* without generative call and without email; a run in test mode makes no
\* generative call and attempts exactly one transmission, whose body is the
\* placeholder unchanged, and returns True exactly when no step of that
\* transmission failed.
C3_InsufficientDataPath ==
    InsufficientData =>
        IF e_run.test_mode
        THEN /\ e_run.generated = 0
             /\ Len(e_run.sent) = 1
             /\ e_run.sent[1].body = test_analysis
             /\ e_run.ret = Some(e_run.sent[1].failed = "ok")
        ELSE e_run.ret = Some(FALSE) /\ e_run.generated = 0 /\ e_run.sent = <<>>

\* test mode, no news rows but price rows, and the placeholder went out
C3_Witness ==
    /\ InsufficientData /\ e_run.test_mode
    /\ e_run.eco = 0 /\ e_run.btc > 0
    /\ e_run.ret = Some(TRUE)
    /\ e_run.sent[1].body = test_analysis

\* the generative call of generate_analysis was made and raised
AnalysisFailed == e_run.ran /\ e_run.generated = 1 /\ e_run.gen_raised

\* C7: when the generative call fails, generate_analysis gives the fixed
\* error notice, run goes on to send_email with that notice as the analysis,
\* and every run ends by returning a boolean, no exception escaping.
C7_AnalysisFailureStillMails ==
    /\ AnalysisFailed =>
           /\ e_run.analysis = Some(ErrorNotice)
           /\ Len(e_run.sent) = 1
           /\ e_run.sent[1].body = Salutation \o ErrorNotice \o Signature
    /\ e_run.ran => (~e_run.escaped /\ IsBoolean(e_run.ret))

\* the generative call raised and the notice was delivered
C7_Witness ==
    /\ AnalysisFailed
    /\ e_run.analysis = Some(ErrorNotice)
    /\ e_run.ret = Some(TRUE)

\* C8: a run attempts at most one transmission, to the fixed recipient; when
\* connect, login or send fails the run returns False, nothing escapes and
\* there is no second attempt; run returns True only if the one transmission
\* went through.
C8_AtMostOneTransmission ==
    e_run.ran =>
        /\ Len(e_run.sent) <= 1
        /\ \A k \in 1..Len(e_run.sent) : e_run.sent[k].To = "s.hamza.zar@gmail.com"
        /\ (e_run.sent # <<>> /\ e_run.sent[1].failed # "ok")
               => (e_run.ret = Some(FALSE) /\ ~e_run.escaped)
        /\ e_run.ret = Some(TRUE)
               => (Len(e_run.sent) = 1 /\ e_run.sent[1].failed = "ok"
                      /\ e_run.sent[1].delivered)

\* a generated analysis whose transmission failed at login
C8_Witness ==
    /\ e_run.ran /\ e_run.generated = 1 /\ ~e_run.gen_raised
    /\ Len(e_run.sent) = 1
    /\ e_run.sent[1].failed = "login"
    /\ e_run.ret = Some(FALSE)

(***************************************************************************)
(* Claims about the start of the three pipelines                           *)
(***************************************************************************)
\* a credential the pipeline works with is absent from its environment
NewsCredentialAbsent ==
    \/ ~Truthy(n_env.BRAVE_API_KEY) \/ ~Truthy(n_env.HF_API_KEY)
    \/ ~Truthy(n_env.SUPABASE_URL) \/ ~Truthy(n_env.SUPABASE_KEY)
EmailCredentialAbsent ==
    \/ ~Truthy(e_env.HF_API_KEY)
    \/ ~Truthy(e_env.SUPABASE_URL) \/ ~Truthy(e_env.SUPABASE_KEY)
    \/ ~Truthy(e_env.GMAIL_USER) \/ ~Truthy(e_env.GMAIL_APP_PASSWORD)

\* C11: in each of the three pipelines, when a credential the pipeline
\* requires is absent the pipeline aborts at startup before any external
\* call: the price collector sends no GET and issues no insert, the news
\* collector is aborted and has called neither the generative API, the search
\* API nor the database, the analysis & notifier is aborted and has not run.
C11_MissingCredentialAbortsBeforeAnyCall ==
    /\ (PriceCalled /\ ~CredentialsPresent) =>
           (p_last.gets = 0 /\ p_last.issued = <<>>)
    /\ (n_pc # "new" /\ NewsCredentialAbsent) =>
           (n_pc = "aborted" /\ n_calls = NoCalls)
    /\ (e_pc # "new" /\ EmailCredentialAbsent) =>
           (e_pc = "aborted" /\ ~e_run.ran)

(***************************************************************************)
(* Claims about main of the price logger, checked under SpecLogger         *)
(***************************************************************************)
\* C12: in main, an exception raised inside an iteration is caught, the loop
\* waits the fixed back-off and then begins a new iteration (an iteration
\* that did not raise waits the hour), and an interrupt, wherever it arrives
\* (fetch, persist, read-back, either sleep), ends the loop by the break and
\* never leaves main as an uncaught exception.
C12_LoopSurvivesErrorsAndStopsCleanly ==
    /\ g_pc # "escaped"
    /\ g_raised => g_pc \in {"backoff", "fetch", "stopped"}
    /\ (g_pc = "fetch" /\ g_iter > 0) =>
           g_waited = IF g_raised THEN BackoffInterval ELSE SleepInterval

(***************************************************************************)
(* Claims about failures inside fetch_bitcoin_news, checked under SpecNews *)
(***************************************************************************)
\* C13: no failure of a single external call of fetch_bitcoin_news (query
\* generation, the search request, a summarization, an insert) escapes: no
\* pass of the loop raises, and the loop ends only by returning after all
\* num_queries queries.
C13_NoFailureEscapesTheWorkflow ==
    /\ n_pc # "raised"
    /\ n_last.ran => ~n_last.raised
    /\ n_pc = "returned" => n_i = n_num

(***************************************************************************)
(* Claims about what the price collector reports, checked under SpecPrice  *)
(***************************************************************************)
\* C14: whenever a price was quoted and its insert failed (credentials
\* missing, the insert raised, or the insert answered with no rows),
\* fetch_btc_price_and_store returns the failure value, so that a returned
\* price means a stored record.
C14_FailedInsertIsReported ==
    /\ (PriceCalled /\ PriceQuoted /\ ~p_last.stored) => p_last.ret = None
    /\ (PriceCalled /\ p_last.ret # None) => Len(btc_prices) = p_last.before + 1

====
